---------------------------- MODULE Spec2Model ----------------------------
(***************************************************************************)
(* A model of the commit log of hindenbug/dlog (internal/log): the store   *)
(* file of length-prefixed frames, the memory-mapped index of 12-byte      *)
(* entries, the segment that pairs them, and the Log that owns the         *)
(* segments.  Files are modelled as byte sequences, so that framing,       *)
(* big-endian encoding, truncation and recovery are computed, not assumed. *)
(***************************************************************************)
EXTENDS Integers, Sequences, FiniteSets, TLC

(***************************************************************************)
(* Bounds of the model (not program constants).                            *)
(***************************************************************************)
\* Log.Append calls (successful or failed) in one behaviour.
MaxAppends == 3
\* NewLog calls after the first one (reopen after Close or after a crash).
MaxReopens == 1
\* index.Write calls on the stand-alone index of SpecIndex.
MaxIdxWrites == 3
\* store.Append calls on the stand-alone store of SpecStore, and newStore
\* calls on its file after the first.
MaxStAppends == 3
MaxStOpens == 1

(***************************************************************************)
(* Program constants.                                                      *)
(***************************************************************************)
\* store.go:12  limit = 8, the width of a frame's length prefix
limit == 8
\* index (log_test.go:96-98)
offsetWidth == 4
posWidth == 8
entryWidth == offsetWidth + posWidth
\* log.go:28 and log.go:32, the defaults NewLog applies to a zero Config
DefaultMaxStoreBytes == 1024
DefaultMaxIndexBytes == 1024
\* ioutil.ReadAll's read size (bytes.MinRead), the p of originReader.Read
ReadChunk == 512

\* Config.Segment values the model draws from (0 = unset, NewLog defaults it).
MaxStoreBytesChoices == {0, 20}
MaxIndexBytesChoices == {24, 30}
InitialOffsetChoices == {0, 2}
\* Record.Value payloads handed to Log.Append.
Values == {<< >>, <<7>>}
\* (offset, position) pairs handed to index.Write in SpecIndex.
IdxOffs == {0, 1}
IdxPoss == {0, 10}
\* index.Read's int64 argument is hi * 2^32 + lo: the multiples of 2^32 and
\* the low parts tried (-1 is the last entry; -2 and MaxIdxWrites are beyond)
IdxHighs == {0, 1}
IdxLows == (-2)..MaxIdxWrites
\* MaxIndexBytes of the stand-alone index, as in TestIndex but small.
IdxMaxIndexBytes == {24, 30, 40}

(***************************************************************************)
(* Bytes.                                                                  *)
(***************************************************************************)
\* binary.BigEndian.PutUint32 / PutUint64 / binary.Write: n in w bytes, most
\* significant first.  Every n of the model is below 2^31, so the bytes
\* above the low four are 0.
BigEndian(n, w) == [i \in 1..w |-> IF w - i >= 4 THEN 0 ELSE (n \div (256 ^ (w - i))) % 256]

\* binary.BigEndian.Uint32 / Uint64.  A value of 2^24 or more (a byte above
\* the low three is set) is reported as Huge: it is only ever compared with
\* file lengths, which are far smaller.
Huge == 256 ^ 3
RECURSIVE UintLow(_)
UintLow(b) == IF b = << >> THEN 0 ELSE UintLow(SubSeq(b, 1, Len(b) - 1)) * 256 + b[Len(b)]
Uint(b) ==
    IF \E i \in 1..(Len(b) - 3) : b[i] # 0
    THEN Huge
    ELSE UintLow(SubSeq(b, IF Len(b) > 3 THEN Len(b) - 2 ELSE 1, Len(b)))

\* b[from .. from+n) with 0-based from, as Go slices and ReadAt address bytes
Slice(b, from, n) == SubSeq(b, from + 1, from + n)

\* os.Truncate / File.Truncate: cut to n bytes, or extend with zero bytes
Truncate(f, n) == [i \in 1..n |-> IF i <= Len(f) THEN f[i] ELSE 0]

\* b with the bytes at [at, at+Len(w)) replaced by w (a store into the mmap)
Poke(b, at, w) == [i \in 1..Len(b) |-> IF i > at /\ i <= at + Len(w) THEN w[i - at] ELSE b[i]]

Min(a, b) == IF a < b THEN a ELSE b


(***************************************************************************)
(* Store (store.go).  A store object is [size, buf]: the logical size and  *)
(* the bytes still in the bufio.Writer; the file is a byte sequence.  The  *)
(* writer's buffer (4096 bytes) never fills within the bounds, so bytes    *)
(* reach the file only by Flush.                                           *)
(***************************************************************************)
\* newStore: size := file.Size(), an empty buffered writer
NewStore(file) == [size |-> Len(file), buf |-> << >>]

\* the frame store.Append writes: the length in 8 bytes, then the payload
FrameNoPrefix(p) == p
Frame(p) == BigEndian(Len(p), limit) \o p

\* store.Append: pos := size; write the frame to the buffer; size += 8 + len(p)
StoreAppend(s, p) ==
    [store |-> [size |-> s.size + (Len(p) + limit), buf |-> s.buf \o Frame(p)],
     n |-> Len(p) + limit,
     pos |-> s.size]

\* buffer.Flush: the buffered bytes go to the end of the file
StoreNoFlush(s, file) == file
StoreFlushFile(s, file) == file \o s.buf
StoreFlushed(s) == [s EXCEPT !.buf = << >>]

\* store.Read after its Flush: the 8-byte length at pos, then that many bytes.
\* File.ReadAt fails with io.EOF when the file ends before the buffer is full.
StoreRead(file, pos) ==
    IF pos + limit > Len(file)
    THEN [err |-> "EOF", b |-> << >>]
    ELSE LET n == Uint(Slice(file, pos, limit))
         IN  IF pos + limit + n > Len(file)
             THEN [err |-> "EOF", b |-> << >>]
             ELSE [err |-> "nil", b |-> Slice(file, pos + limit, n)]

\* store.ReadAt after its Flush: up to plen bytes at offset, io.EOF when short
StoreReadAt(file, plen, offset) ==
    LET avail == IF offset >= Len(file) THEN 0 ELSE Len(file) - offset
        n == Min(plen, avail)
    IN  [n |-> n, b |-> Slice(file, offset, n), err |-> IF n < plen THEN "EOF" ELSE "nil"]

(***************************************************************************)
(* Index (the index code in log_test.go, lines 83-214).  An index object   *)
(* is [size, maplen]; the mapping is MAP_SHARED over the whole file, so    *)
(* the file's bytes are the mapping's bytes.                               *)
(***************************************************************************)
\* uint32(x): x itself for 0 <= x < 2^31; a negative x wraps to 2^32 + x,
\* reported as Huge (a slot beyond every index size)
U32(x) == IF x < 0 THEN Huge ELSE x

\* newIndex: size := the file's length; os.Truncate(name, MaxIndexBytes); mmap
NewIndexSizeZero(file) == 0
NewIndexSize(file) == Len(file)
NewIndex(file, maxIndexBytes) ==
    [index |-> [size |-> NewIndexSize(file), maplen |-> maxIndexBytes],
     file |-> Truncate(file, maxIndexBytes)]

\* index.Write: io.EOF when the mapping has no room for one more entry
IndexHasRoomOffByOne(i) == ~(i.maplen < i.size)
IndexHasRoom(i) == ~(i.maplen < i.size + entryWidth)
IndexWriteCountsFailed(i, file, off, pos) ==
    [err |-> IF IndexHasRoom(i) THEN "nil" ELSE "EOF",
     index |-> [i EXCEPT !.size = i.size + entryWidth],
     file |-> IF IndexHasRoom(i)
              THEN Poke(Poke(file, i.size, BigEndian(off, offsetWidth)),
                        i.size + offsetWidth, BigEndian(pos, posWidth))
              ELSE file]
IndexWrite(i, file, off, pos) ==
    IF ~IndexHasRoom(i)
    THEN [err |-> "EOF", index |-> i, file |-> file]
    ELSE [err |-> "nil",
          index |-> [i EXCEPT !.size = i.size + entryWidth],
          file |-> Poke(Poke(file, i.size, BigEndian(off, offsetWidth)),
                        i.size + offsetWidth, BigEndian(pos, posWidth))]

\* index.Read: the entry at offset, or the last entry for offset = -1
IndexReadSlotFirst(i, offset) == IF offset = -1 THEN 0 ELSE U32(offset)
IndexReadSlot(i, offset) ==
    IF offset = -1 THEN U32((i.size \div entryWidth) - 1) ELSE U32(offset)
IndexReadEntry(i, file, pos) ==
    IF i.size < pos + entryWidth
    THEN [err |-> "EOF", out |-> 0, pos |-> 0]
    ELSE IF pos + entryWidth > Len(file)
    THEN [err |-> "panic", out |-> 0, pos |-> 0]
    ELSE [err |-> "nil",
          out |-> Uint(Slice(file, pos, offsetWidth)),
          pos |-> Uint(Slice(file, pos + offsetWidth, posWidth))]
IndexRead(i, file, offset) ==
    IF i.size = 0
    THEN [err |-> "EOF", out |-> 0, pos |-> 0]
    ELSE IndexReadEntry(i, file, IndexReadSlot(i, offset) * entryWidth)

\* index.Read(hi * 2^32 + lo), for an int64 beyond 32 bits: with hi # 0 the
\* argument is not -1, and uint32 keeps its low 32 bits, which are lo's
IndexReadWide(i, file, hi, lo) ==
    IF hi = 0 THEN IndexRead(i, file, lo)
    ELSE IF i.size = 0 THEN [err |-> "EOF", out |-> 0, pos |-> 0]
    ELSE IndexReadEntry(i, file, U32(lo) * entryWidth)

\* index.Close: sync, then file.Truncate(size): the file's length afterwards
IndexCloseKeepLen(i, file) == file
IndexClose(i, file) == Truncate(file, i.size)

(***************************************************************************)
(* Record serialization (api.Record with proto.Marshal, not in src/).      *)
(* proto3 wire format: field 1 (Value, bytes) as 0x0A len bytes, field 2   *)
(* (Offset, uint64) as 0x10 varint; a zero field is omitted.  Lengths and  *)
(* offsets of the model stay below 128, a one-byte varint.                 *)
(***************************************************************************)
Marshal(rec) ==
    (IF rec.Value # << >> THEN <<10, Len(rec.Value)>> \o rec.Value ELSE << >>)
    \o (IF rec.Offset # 0 THEN <<16, rec.Offset>> ELSE << >>)

Unmarshal(b) ==
    LET hasV == Len(b) >= 2 /\ b[1] = 10
        v    == IF hasV THEN SubSeq(b, 3, 2 + b[2]) ELSE << >>
        rest == IF hasV THEN SubSeq(b, 3 + b[2], Len(b)) ELSE b
        off  == IF Len(rest) >= 2 /\ rest[1] = 16 THEN rest[2] ELSE 0
    IN  [Value |-> v, Offset |-> off]

(***************************************************************************)
(* The directory.  fs = [exists, store, index]: whether Log.Dir exists and *)
(* the bytes of each <base>.store and <base>.index file, keyed by base.    *)
(***************************************************************************)
NoFiles == [b \in {} |-> << >>]
EmptyDir == [exists |-> TRUE, store |-> NoFiles, index |-> NoFiles]

\* os.RemoveAll(l.Dir)
RemoveAll(fs) == [exists |-> FALSE, store |-> NoFiles, index |-> NoFiles]

(***************************************************************************)
(* Segment (segment.go is not among the sources; modelled from the spec,   *)
(* section 4.3).  A segment is [baseOffset, nextOffset, store, index].     *)
(***************************************************************************)
\* newSegment: open or create both files, then nextOffset from index.Read(-1)
NewSegment(fs, baseOffset, c) ==
    LET sfile == IF baseOffset \in DOMAIN fs.store THEN fs.store[baseOffset] ELSE << >>
        ifile == IF baseOffset \in DOMAIN fs.index THEN fs.index[baseOffset] ELSE << >>
        ni    == NewIndex(ifile, c.MaxIndexBytes)
        last  == IndexRead(ni.index, ni.file, -1)
    IN  [seg |-> [baseOffset |-> baseOffset,
                  nextOffset |-> IF last.err # "nil" THEN baseOffset
                                 ELSE baseOffset + last.out + 1,
                  store |-> NewStore(sfile),
                  index |-> ni.index],
         fs  |-> [fs EXCEPT !.store = (baseOffset :> sfile) @@ fs.store,
                            !.index = (baseOffset :> ni.file) @@ fs.index]]

\* segment.Append, first half: offset := nextOffset, serialize, store.Append
SegAppendStore(seg, value) ==
    StoreAppend(seg.store, Marshal([Value |-> value, Offset |-> seg.nextOffset]))

\* segment.Append, second half: index.Write(nextOffset - baseOffset, pos),
\* then nextOffset++.  cur is the offset read in the first half.  The index
\* object is shared, so whatever a refused Write did to it stays.
SegAppendIndex(seg, ifile, cur, pos) ==
    LET iw == IndexWrite(seg.index, ifile, U32(seg.nextOffset - seg.baseOffset), pos)
    IN  IF iw.err # "nil"
        THEN [err |-> iw.err, off |-> 0,
              seg |-> [seg EXCEPT !.index = iw.index], ifile |-> iw.file]
        ELSE [err |-> "nil", off |-> cur,
              seg |-> [seg EXCEPT !.index = iw.index, !.nextOffset = seg.nextOffset + 1],
              ifile |-> iw.file]

\* segment.Append as a whole
SegAppend(seg, ifile, value) ==
    LET sa == SegAppendStore(seg, value)
    IN  SegAppendIndex([seg EXCEPT !.store = sa.store], ifile, seg.nextOffset, sa.pos)

\* segment.Read: index.Read(off - baseOffset), store.Read(pos), deserialize.
\* sfile is the store file after store.Read's flush.
SegRead(seg, sfile, ifile, off) ==
    LET ir == IndexRead(seg.index, ifile, off - seg.baseOffset)
    IN  IF ir.err # "nil"
        THEN [err |-> ir.err, rec |-> [Value |-> << >>, Offset |-> 0]]
        ELSE LET sr == StoreRead(sfile, ir.pos)
             IN  IF sr.err # "nil"
                 THEN [err |-> sr.err, rec |-> [Value |-> << >>, Offset |-> 0]]
                 ELSE [err |-> "nil", rec |-> Unmarshal(sr.b)]

\* segment.IsMaxed
SegIsMaxed(seg, c) ==
    seg.store.size >= c.MaxStoreBytes \/ seg.index.size >= c.MaxIndexBytes

(***************************************************************************)
(* Log (log.go).  A log is [state, Config, segments, active]; active is    *)
(* the position in segments of the segment activeSegment points to.        *)
(***************************************************************************)
\* NewLog's defaults for a zero MaxStoreBytes / MaxIndexBytes
WithDefaults(c) ==
    [MaxStoreBytes |-> IF c.MaxStoreBytes = 0 THEN DefaultMaxStoreBytes ELSE c.MaxStoreBytes,
     MaxIndexBytes |-> IF c.MaxIndexBytes = 0 THEN DefaultMaxIndexBytes ELSE c.MaxIndexBytes,
     InitialOffset |-> c.InitialOffset]

\* Log.newSegment: append the new segment and make it the active one
LogNewSegment(l, fs, off) ==
    LET ns == NewSegment(fs, off, l.Config)
    IN  [log |-> [l EXCEPT !.segments = Append(l.segments, ns.seg),
                           !.active = Len(l.segments) + 1],
         fs  |-> ns.fs]

\* the file names ioutil.ReadDir lists, as (base, extension)
DirNames(fs) ==
    {<<b, "store">> : b \in DOMAIN fs.store} \cup {<<b, "index">> : b \in DOMAIN fs.index}

\* setup: the base offset parsed from each name, sorted ascending
RECURSIVE SortBases(_)
SortBases(S) ==
    IF S = {} THEN << >>
    ELSE LET m == CHOOSE x \in S : \A y \in S : x[1] <= y[1]
         IN  <<m[1]>> \o SortBases(S \ {m})

\* setup's loop advances by two: i++ in the body and i++ in the for clause
SetupStrideOne == 2 - 1
SetupStride == 2

RECURSIVE SetupLoop(_, _, _, _)
SetupLoop(l, fs, bases, i) ==
    IF i > Len(bases) THEN [log |-> l, fs |-> fs]
    ELSE LET r == LogNewSegment(l, fs, bases[i])
         IN  SetupLoop(r.log, r.fs, bases, i + SetupStride)

\* a result without an error
Ok(r) == [err |-> "nil", log |-> r.log, fs |-> r.fs]

\* setup's last step: a log that found no segment gets one at InitialOffset
SetupFinish(r, initialOffset) ==
    IF r.log.segments = << >>
    THEN Ok(LogNewSegment(r.log, r.fs, initialOffset))
    ELSE Ok(r)

\* Log.setup: ioutil.ReadDir fails when the directory does not exist
Setup(l, fs) ==
    IF ~fs.exists
    THEN [err |-> "ENOENT", log |-> l, fs |-> fs]
    ELSE SetupFinish(SetupLoop(l, fs, SortBases(DirNames(fs)), 1), l.Config.InitialOffset)

\* NewLog returns (log, log.setup()): a log whose setup failed is not used
NewLogResult(r) == IF r.err # "nil" THEN [r EXCEPT !.log.state = "failed"] ELSE r

\* NewLog
NewLog(c, fs) ==
    NewLogResult(Setup([state |-> "open", Config |-> WithDefaults(c),
                        segments |-> << >>, active |-> 0], fs))

\* Log.Append's roll-over: the base offset of the new segment
RollBaseSame(offset) == offset
RollBase(offset) == offset + 1

\* Log.Append, after activeSegment.Append returned r: roll over when maxed
LogAppendFinish(l, fs, r) ==
    LET a   == l.segments[l.active]
        l1  == [l EXCEPT !.segments[l.active] = r.seg]
        fs1 == [fs EXCEPT !.index[a.baseOffset] = r.ifile]
    IN  IF r.err # "nil"
        THEN [err |-> r.err, off |-> 0, log |-> l1, fs |-> fs1]
        ELSE IF SegIsMaxed(r.seg, l.Config)
        THEN LET n == LogNewSegment(l1, fs1, RollBase(r.off))
             IN  [err |-> "nil", off |-> r.off, log |-> n.log, fs |-> n.fs]
        ELSE [err |-> "nil", off |-> r.off, log |-> l1, fs |-> fs1]

\* Log.Append
LogAppend(l, fs, value) ==
    LET a == l.segments[l.active]
    IN  LogAppendFinish(l, fs, SegAppend(a, fs.index[a.baseOffset], value))

\* Log.Read's scan condition for one segment
InSegmentStrict(seg, offset) == seg.baseOffset < offset /\ offset < seg.nextOffset
InSegment(seg, offset) == seg.baseOffset <= offset /\ offset < seg.nextOffset

\* Log.Read's scan: the first segment that holds offset, 0 for nil
FindSegment(l, offset) ==
    LET hits == {i \in 1..Len(l.segments) : InSegment(l.segments[i], offset)}
    IN  IF hits = {} THEN 0 ELSE CHOOSE i \in hits : \A j \in hits : i <= j

\* Log.Read's verdict on the scan: no segment holds offset
OutOfRange(l, offset) ==
    LET s == FindSegment(l, offset)
    IN  s = 0 \/ l.segments[s].nextOffset <= offset

\* Log.Read on an open log: the result, and the log and directory after
\* store.Read's flush (store.Read runs when index.Read succeeded)
LogRead(l, fs, offset) ==
    IF OutOfRange(l, offset)
    THEN [err |-> "ErrOffsetOutOfRange", rec |-> [Value |-> << >>, Offset |-> 0],
          log |-> l, fs |-> fs]
    ELSE LET s     == FindSegment(l, offset)
             seg   == l.segments[s]
             sfile == StoreFlushFile(seg.store, fs.store[seg.baseOffset])
             ifile == fs.index[seg.baseOffset]
             r     == SegRead(seg, sfile, ifile, offset)
             read  == IndexRead(seg.index, ifile, offset - seg.baseOffset).err = "nil"
         IN  [err |-> r.err, rec |-> r.rec,
              log |-> IF read THEN [l EXCEPT !.segments[s].store = StoreFlushed(seg.store)]
                      ELSE l,
              fs  |-> IF read THEN [fs EXCEPT !.store[seg.baseOffset] = sfile] ELSE fs]

\* segment.Close for every segment (index.Close, then store.Close's flush)
LogClose(l, fs) ==
    LET at(b) == CHOOSE i \in 1..Len(l.segments) : l.segments[i].baseOffset = b
        held  == {l.segments[i].baseOffset : i \in 1..Len(l.segments)}
    IN  [err |-> "nil",
         log |-> [l EXCEPT !.state = "closed",
                           !.segments = [i \in 1..Len(l.segments) |->
                               [l.segments[i] EXCEPT !.store = StoreFlushed(@)]]],
         fs  |-> [fs EXCEPT
                    !.store = [b \in DOMAIN fs.store |->
                        IF b \in held THEN StoreFlushFile(l.segments[at(b)].store, fs.store[b])
                        ELSE fs.store[b]],
                    !.index = [b \in DOMAIN fs.index |->
                        IF b \in held THEN IndexClose(l.segments[at(b)].index, fs.index[b])
                        ELSE fs.index[b]]]]

\* Log.Remove: Close, then os.RemoveAll(l.Dir)
Removed(c) == [err |-> c.err, log |-> c.log, fs |-> RemoveAll(c.fs)]
LogRemove(l, fs) == Removed(LogClose(l, fs))

\* Log.Reset: Remove, then setup on the same Log object
Reopened(su) == IF su.err # "nil" THEN su ELSE [su EXCEPT !.log.state = "open"]
ResetSetup(rm) == IF rm.err # "nil" THEN rm ELSE Reopened(Setup(rm.log, rm.fs))
LogReset(l, fs) == ResetSetup(LogRemove(l, fs))

(***************************************************************************)
(* The whole-log reader.  A reader is [live, stores, off, out, done]:      *)
(* the stores Log.Reader captured (by base offset) that io.MultiReader has *)
(* not exhausted, the originReader offset of the first of them, the bytes  *)
(* ioutil.ReadAll has collected, and whether it has seen io.EOF.           *)
(***************************************************************************)
NoReader == [live |-> FALSE, stores |-> << >>, off |-> 0, out |-> << >>, done |-> FALSE]

\* Log.Reader: one originReader{segment.store, 0} per segment, in order
LogReader(l) ==
    [live |-> TRUE,
     stores |-> [i \in 1..Len(l.segments) |-> l.segments[i].baseOffset],
     off |-> 0, out |-> << >>, done |-> FALSE]

\* One multiReader.Read(p) with len(p) = ReadChunk: originReader.Read on the
\* first store (store.ReadAt flushes it); on io.EOF the store is dropped and,
\* when nothing was read, the next one is tried.
RECURSIVE MultiRead(_, _, _, _)
MultiRead(stores, off, l, fs) ==
    IF stores = << >>
    THEN [b |-> << >>, err |-> "EOF", stores |-> stores, off |-> off, log |-> l, fs |-> fs]
    ELSE LET base == Head(stores)
             s    == CHOOSE i \in 1..Len(l.segments) : l.segments[i].baseOffset = base
             file == StoreFlushFile(l.segments[s].store, fs.store[base])
             l1   == [l EXCEPT !.segments[s].store = StoreFlushed(@)]
             fs1  == [fs EXCEPT !.store[base] = file]
             r    == StoreReadAt(file, ReadChunk, off)
             rest == IF r.err = "EOF" THEN Tail(stores) ELSE stores
             off1 == IF r.err = "EOF" THEN 0 ELSE off + r.n
         IN  IF r.n > 0 \/ r.err # "EOF"
             THEN [b |-> r.b,
                   err |-> IF r.err = "EOF" /\ rest # << >> THEN "nil" ELSE r.err,
                   stores |-> rest, off |-> off1, log |-> l1, fs |-> fs1]
             ELSE MultiRead(rest, off1, l1, fs1)

(***************************************************************************)
(* State.                                                                  *)
(***************************************************************************)
VARIABLES
    config,     \* the Config handed to NewLog
    fs,         \* the directory and its files
    log,        \* the Log object
    rd,         \* the reader ioutil.ReadAll is draining
    ret,        \* the last call and what it returned
    appended,   \* history: the (offset, value) of every successful Log.Append
    snap,       \* history: how the last log ended (Close or crash), and what
                \* Read returned for each offset and nextOffset was just before
    rdAt,       \* history: the number of Log.Append calls when Reader was called
    nApp,       \* Log.Append calls so far
    nOpen,      \* NewLog calls after the first
    ix,         \* the stand-alone index of SpecIndex and its file
    ixRet,      \* the last call on it and what it returned
    ixWritten,  \* history: the (offset, position) of every successful index.Write
    st,         \* the stand-alone store of SpecStore and its file
    stRet,      \* the last call on it and what it returned
    stWritten,  \* history: the (pos, n, payload) of every store.Append
    mu,         \* Log.mu, the log's sync.RWMutex: its writer and its readers
    th          \* the threads of SpecConc: where each is in Append or Read

logVars == <<config, fs, log, rd, ret, appended, snap, rdAt, nApp, nOpen>>
ixVars == <<ix, ixRet, ixWritten>>
thVars == <<mu, th>>
stVars == <<st, stRet, stWritten>>
vars == <<logVars, ixVars, thVars, stVars>>

Threads == {1, 2}

MaxOf(S) == CHOOSE x \in S : \A y \in S : y <= x
\* the offsets Log.Read is called with: every assignable offset and one beyond
Offsets == 0 .. (MaxOf(InitialOffsetChoices) + MaxAppends + 1)

NoRecord == [Value |-> << >>, Offset |-> 0]
Ret(op, err, off, rec) == [op |-> op, err |-> err, off |-> off, rec |-> rec]

\* what Log.Read(o) returns in the current state, for every o
ReadResult(r) == [err |-> r.err, rec |-> r.rec]
View(l, f) == [o \in Offsets |-> ReadResult(LogRead(l, f, o))]
NoSnap == [kind |-> "none", flushed |-> TRUE, next |-> 0, view |-> << >>]
Flushed(l) == \A i \in 1..Len(l.segments) : l.segments[i].store.buf = << >>
SnapAt(kind, l, f) ==
    [kind |-> kind, flushed |-> Flushed(l),
     next |-> l.segments[l.active].nextOffset, view |-> View(l, f)]

Active == log.segments[log.active]

\* no stand-alone index; the mutex free and every thread between calls
NoIndex == [state |-> "none", max |-> 0, index |-> [size |-> 0, maplen |-> 0], file |-> << >>]
IxRet(op, err, k, out, pos) ==
    [op |-> op, err |-> err, hi |-> 0, k |-> k, out |-> out, pos |-> pos]
Unlocked == [writer |-> 0, readers |-> {}]
\* no stand-alone store
NoStore == [state |-> "none", gen |-> 0, store |-> NewStore(<< >>), file |-> << >>]
StRet(op, err, n, pos, b) == [op |-> op, err |-> err, n |-> n, pos |-> pos, b |-> b]
Idle == [pc |-> "idle", arg |-> 0, value |-> << >>, cur |-> 0, pos |-> 0,
         res |-> [err |-> "nil", off |-> 0, rec |-> NoRecord],
         expect |-> [known |-> FALSE, value |-> << >>]]

\* the state a call leaves: the log, the directory and what it returned
Leaves(op, r, off, rec) ==
    /\ log' = r.log
    /\ fs' = r.fs
    /\ ret' = Ret(op, r.err, off, rec)

InitFrom(r) ==
    /\ fs = r.fs
    /\ log = r.log
    /\ ret = Ret("NewLog", r.err, 0, NoRecord)

Init ==
    /\ config \in [MaxStoreBytes : MaxStoreBytesChoices,
                   MaxIndexBytes : MaxIndexBytesChoices,
                   InitialOffset : InitialOffsetChoices]
    /\ InitFrom(NewLog(config, EmptyDir))
    /\ rd = NoReader
    /\ appended = << >>
    /\ snap = NoSnap
    /\ rdAt = 0
    /\ nApp = 0
    /\ nOpen = 0
    /\ ix = NoIndex
    /\ ixRet = IxRet("none", "nil", 0, 0, 0)
    /\ ixWritten = << >>
    /\ mu = Unlocked
    /\ th = [t \in Threads |-> Idle]
    /\ st = NoStore
    /\ stRet = StRet("none", "nil", 0, 0, << >>)
    /\ stWritten = << >>

\* Log.Append(&api.Record{Value: v})
Appended(r, v) ==
    /\ Leaves("Append", r, r.off, NoRecord)
    /\ appended' = IF r.err = "nil"
                   THEN Append(appended, [off |-> r.off, value |-> v])
                   ELSE appended

DoAppend(v) ==
    /\ log.state = "open"
    /\ nApp < MaxAppends
    /\ Appended(LogAppend(log, fs, v), v)
    /\ nApp' = nApp + 1
    /\ UNCHANGED <<config, rd, snap, rdAt, nOpen>>
    /\ UNCHANGED <<ixVars, thVars, stVars>>

\* Log.Read(o)
WasRead(r, o) == Leaves("Read", r, o, r.rec)

DoRead(o) ==
    /\ log.state = "open"
    /\ WasRead(LogRead(log, fs, o), o)
    /\ UNCHANGED <<config, rd, appended, snap, rdAt, nApp, nOpen>>
    /\ UNCHANGED <<ixVars, thVars, stVars>>

\* Log.Close()
DoClose ==
    /\ log.state = "open"
    /\ Leaves("Close", LogClose(log, fs), 0, NoRecord)
    /\ snap' = SnapAt("close", log, fs)
    /\ rd' = NoReader
    /\ UNCHANGED <<config, appended, rdAt, nApp, nOpen>>
    /\ UNCHANGED <<ixVars, thVars, stVars>>

\* NewLog(dir, config) on the directory a closed or crashed log left
DoNewLog ==
    /\ log.state \in {"closed", "down"}
    /\ nOpen < MaxReopens
    /\ Leaves("NewLog", NewLog(config, fs), 0, NoRecord)
    /\ nOpen' = nOpen + 1
    /\ rd' = NoReader
    /\ UNCHANGED <<config, appended, snap, rdAt, nApp>>
    /\ UNCHANGED <<ixVars, thVars, stVars>>

\* Log.Reset()
WasReset(r) ==
    /\ Leaves("Reset", r, 0, NoRecord)
    /\ appended' = IF r.err = "nil" THEN << >> ELSE appended

DoReset ==
    /\ log.state = "open"
    /\ WasReset(LogReset(log, fs))
    /\ snap' = NoSnap
    /\ rd' = NoReader
    /\ UNCHANGED <<config, rdAt, nApp, nOpen>>
    /\ UNCHANGED <<ixVars, thVars, stVars>>

\* Log.Reader()
DoReader ==
    /\ log.state = "open"
    /\ rd' = LogReader(log)
    /\ rdAt' = nApp
    /\ ret' = Ret("Reader", "nil", 0, NoRecord)
    /\ UNCHANGED <<config, fs, log, appended, snap, nApp, nOpen>>
    /\ UNCHANGED <<ixVars, thVars, stVars>>

\* one Read of ioutil.ReadAll's loop on the reader
ReaderWasRead(r) ==
    /\ rd' = [rd EXCEPT !.stores = r.stores, !.off = r.off,
                        !.out = rd.out \o r.b, !.done = (r.err = "EOF")]
    /\ Leaves("ReaderRead", r, Len(r.b), NoRecord)

DoReaderRead ==
    /\ log.state = "open"
    /\ rd.live
    /\ ~rd.done
    /\ ReaderWasRead(MultiRead(rd.stores, rd.off, log, fs))
    /\ UNCHANGED <<config, appended, snap, rdAt, nApp, nOpen>>
    /\ UNCHANGED <<ixVars, thVars, stVars>>

\* the process stops without Log.Close: the buffered store bytes are lost, the
\* mapped index files keep their pre-grown length
DoCrash ==
    /\ log.state = "open"
    /\ log' = [state |-> "down", Config |-> log.Config, segments |-> << >>, active |-> 0]
    /\ ret' = Ret("Crash", "nil", 0, NoRecord)
    /\ rd' = NoReader
    /\ snap' = SnapAt("crash", log, fs)
    /\ UNCHANGED <<config, fs, appended, rdAt, nApp, nOpen>>
    /\ UNCHANGED <<ixVars, thVars, stVars>>

Next ==
    \/ \E v \in Values : DoAppend(v)
    \/ \E o \in Offsets : DoRead(o)
    \/ DoClose
    \/ DoNewLog
    \/ DoReset

\* The log's life: appends, reads, Close and NewLog on the same directory, Reset.
Spec == Init /\ [][Next]_vars

NextReader ==
    \/ \E v \in Values : DoAppend(v)
    \/ DoReader
    \/ DoReaderRead

\* Appends and the whole-log reader drained by ioutil.ReadAll.
SpecReader == Init /\ [][NextReader]_vars

NextCrash ==
    \/ \E v \in Values : DoAppend(v)
    \/ \E o \in Offsets : DoRead(o)
    \/ DoCrash
    \/ DoNewLog

\* Appends and reads, the process stopping without Close, and NewLog afterwards.
SpecCrash == Init /\ [][NextCrash]_vars

(***************************************************************************)
(* The stand-alone index, driven as TestIndex drives it: newIndex on a     *)
(* fresh file, Write, Read, Close, and newIndex again on the same file.    *)
(***************************************************************************)
IxOpened(max, r) ==
    /\ ix' = [state |-> "open", max |-> max, index |-> r.index, file |-> r.file]
    /\ ixRet' = IxRet("newIndex", "nil", 0, 0, 0)

\* index.Write(off, pos)
IxWasWritten(r, off, pos) ==
    /\ ix' = [ix EXCEPT !.index = r.index, !.file = r.file]
    /\ ixRet' = IxRet("Write", r.err, 0, off, pos)
    /\ ixWritten' = IF r.err = "nil" THEN Append(ixWritten, <<off, pos>>) ELSE ixWritten

IxWrite(off, pos) ==
    /\ ix.state = "open"
    /\ Len(ixWritten) < MaxIdxWrites
    /\ IxWasWritten(IndexWrite(ix.index, ix.file, off, pos), off, pos)
    /\ UNCHANGED <<logVars, thVars, stVars>>

\* index.Read(hi * 2^32 + k)
IxWasRead(r, hi, k) == ixRet' = [IxRet("Read", r.err, k, r.out, r.pos) EXCEPT !.hi = hi]

IxRead(hi, k) ==
    /\ ix.state = "open"
    /\ IxWasRead(IndexReadWide(ix.index, ix.file, hi, k), hi, k)
    /\ UNCHANGED <<logVars, thVars, stVars, ix, ixWritten>>

\* index.Close()
IxClose ==
    /\ ix.state = "open"
    /\ ix' = [ix EXCEPT !.state = "closed", !.file = IndexClose(ix.index, ix.file)]
    /\ ixRet' = IxRet("Close", "nil", 0, 0, 0)
    /\ UNCHANGED <<logVars, thVars, stVars, ixWritten>>

\* newIndex(f, c) on the closed index's file, with the same config
IxReopen ==
    /\ ix.state = "closed"
    /\ IxOpened(ix.max, NewIndex(ix.file, ix.max))
    /\ UNCHANGED <<logVars, thVars, stVars, ixWritten>>

InitIndex ==
    /\ config = [MaxStoreBytes |-> 0, MaxIndexBytes |-> 0, InitialOffset |-> 0]
    /\ fs = EmptyDir
    /\ log = [state |-> "down", Config |-> config, segments |-> << >>, active |-> 0]
    /\ rd = NoReader
    /\ ret = Ret("none", "nil", 0, NoRecord)
    /\ appended = << >>
    /\ snap = NoSnap
    /\ rdAt = 0
    /\ nApp = 0
    /\ nOpen = 0
    /\ \E max \in IdxMaxIndexBytes :
          ix = [state |-> "open", max |-> max,
                index |-> NewIndex(<< >>, max).index, file |-> NewIndex(<< >>, max).file]
    /\ ixRet = IxRet("newIndex", "nil", 0, 0, 0)
    /\ ixWritten = << >>
    /\ mu = Unlocked
    /\ th = [t \in Threads |-> Idle]
    /\ st = NoStore
    /\ stRet = StRet("none", "nil", 0, 0, << >>)
    /\ stWritten = << >>

NextIndex ==
    \/ \E off \in IdxOffs, pos \in IdxPoss : IxWrite(off, pos)
    \/ \E hi \in IdxHighs, k \in IdxLows : IxRead(hi, k)
    \/ IxClose
    \/ IxReopen

\* The index alone.
SpecIndex == InitIndex /\ [][NextIndex]_vars

\* newIndex(f, c) on the closed index's file, with any MaxIndexBytes
IxReopenAs(max) ==
    /\ ix.state = "closed"
    /\ IxOpened(max, NewIndex(ix.file, max))
    /\ UNCHANGED <<logVars, thVars, stVars, ixWritten>>

NextIndexCfg ==
    \/ \E off \in IdxOffs, pos \in IdxPoss : IxWrite(off, pos)
    \/ \E hi \in IdxHighs, k \in IdxLows : IxRead(hi, k)
    \/ IxClose
    \/ \E max \in IdxMaxIndexBytes : IxReopenAs(max)

\* The index alone, constructed again under a config that may have changed.
SpecIndexCfg == InitIndex /\ [][NextIndexCfg]_vars

(***************************************************************************)
(* The store alone, as TestStoreAppendRead and TestStoreClose drive it:    *)
(* one file handle f, written only through the store's buffered writer, so *)
(* the handle's write position is always the end of the file.              *)
(***************************************************************************)
\* store.Append(p)
StWasAppended(r, p) ==
    /\ st' = [st EXCEPT !.store = r.store]
    /\ stRet' = StRet("Append", "nil", r.n, r.pos, p)
    /\ stWritten' = Append(stWritten, [pos |-> r.pos, n |-> r.n, p |-> p])

StAppend(p) ==
    /\ st.state = "open"
    /\ Len(stWritten) < MaxStAppends
    /\ StWasAppended(StoreAppend(st.store, p), p)
    /\ UNCHANGED <<logVars, ixVars, thVars>>

\* store.Read(pos): Flush, then the record at pos of the file
StWasRead(file, r, pos) ==
    /\ st' = [st EXCEPT !.store = StoreFlushed(st.store), !.file = file]
    /\ stRet' = StRet("Read", r.err, 0, pos, r.b)

StRead(pos) ==
    /\ st.state = "open"
    /\ StWasRead(StoreFlushFile(st.store, st.file),
                 StoreRead(StoreFlushFile(st.store, st.file), pos), pos)
    /\ UNCHANGED <<logVars, ixVars, thVars, stWritten>>

\* store.ReadAt(p, offset) with len(p) = limit: Flush, then the bytes at offset
StWasReadAt(file, r, offset) ==
    /\ st' = [st EXCEPT !.store = StoreFlushed(st.store), !.file = file]
    /\ stRet' = StRet("ReadAt", r.err, r.n, offset, r.b)

StReadAt(offset) ==
    /\ st.state = "open"
    /\ StWasReadAt(StoreFlushFile(st.store, st.file),
                   StoreReadAt(StoreFlushFile(st.store, st.file), limit, offset), offset)
    /\ UNCHANGED <<logVars, ixVars, thVars, stWritten>>

\* store.Close(): Flush, then close the file; n is the file's length before
StClose ==
    /\ st.state = "open"
    /\ st' = [st EXCEPT !.state = "closed", !.store = StoreFlushed(st.store),
                        !.file = StoreFlushFile(st.store, st.file)]
    /\ stRet' = StRet("Close", "nil", Len(st.file), 0, << >>)
    /\ UNCHANGED <<logVars, ixVars, thVars, stWritten>>

\* newStore(f) again on the same handle, once the first store's data is flushed
StNewStore ==
    /\ st.state = "open"
    /\ st.gen < MaxStOpens
    /\ st.store.buf = << >>
    /\ st' = [st EXCEPT !.gen = st.gen + 1, !.store = NewStore(st.file)]
    /\ stRet' = StRet("newStore", "nil", 0, 0, << >>)
    /\ UNCHANGED <<logVars, ixVars, thVars, stWritten>>

\* the positions store.Read and ReadAt are called with: those Append
\* returned, and the store's size (the first position beyond the data)
StPositions == {stWritten[i].pos : i \in 1..Len(stWritten)} \cup {st.store.size}

InitStore ==
    /\ config = [MaxStoreBytes |-> 0, MaxIndexBytes |-> 0, InitialOffset |-> 0]
    /\ fs = EmptyDir
    /\ log = [state |-> "down", Config |-> config, segments |-> << >>, active |-> 0]
    /\ rd = NoReader
    /\ ret = Ret("none", "nil", 0, NoRecord)
    /\ appended = << >>
    /\ snap = NoSnap
    /\ rdAt = 0
    /\ nApp = 0
    /\ nOpen = 0
    /\ ix = NoIndex
    /\ ixRet = IxRet("none", "nil", 0, 0, 0)
    /\ ixWritten = << >>
    /\ mu = Unlocked
    /\ th = [t \in Threads |-> Idle]
    /\ st = [NoStore EXCEPT !.state = "open"]
    /\ stRet = StRet("newStore", "nil", 0, 0, << >>)
    /\ stWritten = << >>

NextStore ==
    \/ \E p \in Values : StAppend(p)
    \/ \E pos \in StPositions : StRead(pos)
    \/ \E offset \in StPositions : StReadAt(offset)
    \/ StClose
    \/ StNewStore

\* The store alone.
SpecStore == InitStore /\ [][NextStore]_vars

(***************************************************************************)
(* Concurrent callers.  Each thread runs Log.Append or Log.Read in steps:  *)
(* taking l.mu, the body (Append's in two halves, around segment.Append's  *)
(* store.Append and index.Write), and the deferred unlock.                 *)
(***************************************************************************)
\* l.mu.Lock() succeeds when nobody holds the mutex
CanLockAlways(m) == TRUE
CanLock(m) == m.writer = 0 /\ m.readers = {}

\* l.mu.RLock() succeeds when no writer holds the mutex
CanRLock(m) == m.writer = 0

\* what a Read of offset o must see: the append that returned o, if one has
\* completed
Expect(o) ==
    IF \E i \in 1..Len(appended) : appended[i].off = o
    THEN [known |-> TRUE,
          value |-> appended[CHOOSE i \in 1..Len(appended) : appended[i].off = o].value]
    ELSE [known |-> FALSE, value |-> << >>]

\* Log.Append: l.mu.Lock()
AcquireW(t, v) ==
    /\ th[t].pc = "idle"
    /\ log.state = "open"
    /\ nApp < MaxAppends
    /\ CanLock(mu)
    /\ mu' = [mu EXCEPT !.writer = t]
    /\ th' = [th EXCEPT ![t] = [Idle EXCEPT !.pc = "store", !.value = v]]
    /\ nApp' = nApp + 1
    /\ UNCHANGED <<config, fs, log, rd, ret, appended, snap, rdAt, nOpen, ixVars, stVars>>

\* segment.Append, first half, on the active segment
StoreWasAppended(t, sa) ==
    /\ log' = [log EXCEPT !.segments[log.active].store = sa.store]
    /\ th' = [th EXCEPT ![t].pc = "index", ![t].cur = Active.nextOffset, ![t].pos = sa.pos]

AppendStore(t) ==
    /\ th[t].pc = "store"
    /\ StoreWasAppended(t, SegAppendStore(Active, th[t].value))
    /\ UNCHANGED <<config, fs, rd, ret, appended, snap, rdAt, nApp, nOpen, mu, ixVars, stVars>>

\* segment.Append, second half, and the rest of Log.Append
IndexWasWritten(t, r) ==
    /\ log' = r.log
    /\ fs' = r.fs
    /\ th' = [th EXCEPT ![t].pc = "unlockW", ![t].res = [err |-> r.err, off |-> r.off, rec |-> NoRecord]]

AppendIndex(t) ==
    /\ th[t].pc = "index"
    /\ IndexWasWritten(t, LogAppendFinish(log, fs,
           SegAppendIndex(Active, fs.index[Active.baseOffset], th[t].cur, th[t].pos)))
    /\ UNCHANGED <<config, rd, ret, appended, snap, rdAt, nApp, nOpen, mu, ixVars, stVars>>

\* Log.Append: the deferred l.mu.Unlock(); the caller has the offset
ReleaseW(t) ==
    /\ th[t].pc = "unlockW"
    /\ mu' = [mu EXCEPT !.writer = 0]
    /\ appended' = IF th[t].res.err = "nil"
                   THEN Append(appended, [off |-> th[t].res.off, value |-> th[t].value])
                   ELSE appended
    /\ th' = [th EXCEPT ![t] = Idle]
    /\ UNCHANGED <<config, fs, log, rd, ret, snap, rdAt, nApp, nOpen, ixVars, stVars>>

\* Log.Read: l.mu.RLock()
AcquireR(t, o) ==
    /\ th[t].pc = "idle"
    /\ log.state = "open"
    /\ CanRLock(mu)
    /\ mu' = [mu EXCEPT !.readers = mu.readers \cup {t}]
    /\ th' = [th EXCEPT ![t] = [Idle EXCEPT !.pc = "read", !.arg = o, !.expect = Expect(o)]]
    /\ UNCHANGED <<logVars, ixVars, stVars>>

\* Log.Read: the scan and segment.Read
BodyWasRead(t, r) ==
    /\ log' = r.log
    /\ fs' = r.fs
    /\ th' = [th EXCEPT ![t].pc = "unlockR",
                        ![t].res = [err |-> r.err, off |-> th[t].arg, rec |-> r.rec]]

ReadBody(t) ==
    /\ th[t].pc = "read"
    /\ BodyWasRead(t, LogRead(log, fs, th[t].arg))
    /\ UNCHANGED <<config, rd, ret, appended, snap, rdAt, nApp, nOpen, mu, ixVars, stVars>>

\* Log.Read: the deferred l.mu.RUnlock()
ReleaseR(t) ==
    /\ th[t].pc = "unlockR"
    /\ mu' = [mu EXCEPT !.readers = mu.readers \ {t}]
    /\ th' = [th EXCEPT ![t] = Idle]
    /\ UNCHANGED <<logVars, ixVars, stVars>>

NextConc ==
    \/ \E t \in Threads, v \in Values : AcquireW(t, v)
    \/ \E t \in Threads : AppendStore(t)
    \/ \E t \in Threads : AppendIndex(t)
    \/ \E t \in Threads : ReleaseW(t)
    \/ \E t \in Threads, o \in Offsets : AcquireR(t, o)
    \/ \E t \in Threads : ReadBody(t)
    \/ \E t \in Threads : ReleaseR(t)

\* Log.Append and Log.Read called from several threads.
SpecConc == Init /\ [][NextConc]_vars

(***************************************************************************)
(* Log.Remove and Log.Reset beside concurrent callers.  Remove is          *)
(* l.Close() (which takes and releases l.mu) followed by os.RemoveAll;     *)
(* Reset is Remove followed by l.setup().  A thread's arg is 0 in Remove   *)
(* and 1 in Reset.                                                         *)
(***************************************************************************)
InRemove == {"close", "removeAll", "setup"}
InCall == {"store", "index", "unlockW", "read", "unlockR"}

\* Log.Read on a log whose segments are closed: the scan still runs on the
\* segment list; for an offset it finds, index.Read reads the mapping and
\* store.Read fails in File.ReadAt on the closed file
LogReadClosed(l, f, offset) ==
    [err |-> IF OutOfRange(l, offset) THEN "ErrOffsetOutOfRange" ELSE "ErrClosed",
     rec |-> NoRecord, log |-> l, fs |-> f]

\* Log.Remove / Log.Reset: l.Close() takes l.mu
LockClose(t, kind) ==
    /\ th[t].pc = "idle"
    /\ log.state = "open"
    /\ CanLock(mu)
    /\ mu' = [mu EXCEPT !.writer = t]
    /\ th' = [th EXCEPT ![t] = [Idle EXCEPT !.pc = "close", !.arg = kind]]
    /\ UNCHANGED <<logVars, ixVars, stVars>>

\* Log.Close: close every segment, then the deferred l.mu.Unlock()
WasClosed(t, r) ==
    /\ log' = r.log
    /\ fs' = r.fs
    /\ th' = [th EXCEPT ![t].pc = "removeAll", ![t].res.err = r.err]

CloseStep(t) ==
    /\ th[t].pc = "close"
    /\ WasClosed(t, LogClose(log, fs))
    /\ mu' = [mu EXCEPT !.writer = 0]
    /\ UNCHANGED <<config, rd, ret, appended, snap, rdAt, nApp, nOpen, ixVars, stVars>>

\* Log.Remove: os.RemoveAll(l.Dir), outside the lock; Remove returns here
RemoveAllStep(t) ==
    /\ th[t].pc = "removeAll"
    /\ fs' = RemoveAll(fs)
    /\ th' = [th EXCEPT ![t] = IF th[t].arg = 0 THEN Idle ELSE [th[t] EXCEPT !.pc = "setup"]]
    /\ ret' = IF th[t].arg = 0 THEN Ret("Remove", "nil", 0, NoRecord) ELSE ret
    /\ UNCHANGED <<config, log, rd, appended, snap, rdAt, nApp, nOpen, mu, ixVars, stVars>>

\* Log.Reset: l.setup(), outside the lock; Reset returns here
WasSetUp(t, r) ==
    /\ log' = r.log
    /\ fs' = r.fs
    /\ ret' = Ret("Reset", r.err, 0, NoRecord)
    /\ th' = [th EXCEPT ![t] = Idle]

SetupStep(t) ==
    /\ th[t].pc = "setup"
    /\ WasSetUp(t, ResetSetup([err |-> "nil", log |-> log, fs |-> fs]))
    /\ UNCHANGED <<config, rd, appended, snap, rdAt, nApp, nOpen, mu, ixVars, stVars>>

\* Log.Read: l.mu.RLock(), whatever state the log is in
AcquireRAny(t, o) ==
    /\ th[t].pc = "idle"
    /\ CanRLock(mu)
    /\ mu' = [mu EXCEPT !.readers = mu.readers \cup {t}]
    /\ th' = [th EXCEPT ![t] = [Idle EXCEPT !.pc = "read", !.arg = o, !.expect = Expect(o)]]
    /\ UNCHANGED <<logVars, ixVars, stVars>>

\* Log.Read: the scan and segment.Read, whatever state the log is in
ReadBodyAny(t) ==
    /\ th[t].pc = "read"
    /\ BodyWasRead(t, IF log.state = "open" THEN LogRead(log, fs, th[t].arg)
                      ELSE LogReadClosed(log, fs, th[t].arg))
    /\ UNCHANGED <<config, rd, ret, appended, snap, rdAt, nApp, nOpen, mu, ixVars, stVars>>

NextExcl ==
    \/ \E t \in Threads, v \in Values : AcquireW(t, v)
    \/ \E t \in Threads : AppendStore(t)
    \/ \E t \in Threads : AppendIndex(t)
    \/ \E t \in Threads : ReleaseW(t)
    \/ \E t \in Threads, o \in Offsets : AcquireRAny(t, o)
    \/ \E t \in Threads : ReadBodyAny(t)
    \/ \E t \in Threads : ReleaseR(t)
    \/ \E t \in Threads, kind \in {0, 1} : LockClose(t, kind)
    \/ \E t \in Threads : CloseStep(t)
    \/ \E t \in Threads : RemoveAllStep(t)
    \/ \E t \in Threads : SetupStep(t)

\* Log.Remove and Log.Reset while other threads call Log.Append and Log.Read.
SpecExcl == Init /\ [][NextExcl]_vars

(***************************************************************************)
(* Properties.                                                             *)
(***************************************************************************)
Segs == log.segments
Bases == {Segs[i].baseOffset : i \in 1..Len(Segs)}
\* the serialized record of the i-th successful append
Payload(i) == Marshal([Value |-> appended[i].value, Offset |-> appended[i].off])

\* C1: offsets are dense: the first successful Log.Append on a fresh log
\* returns Config.Segment.InitialOffset, and each later successful append
\* returns the offset of the one before it plus 1, across roll-overs too.
OffsetsDense ==
    \A i \in 1..Len(appended) : appended[i].off = config.InitialOffset + (i - 1)

\* C1 witness: three successful appends from a non-zero InitialOffset, one of
\* which rolled over to a new segment that a later append then used.
OffsetsDenseWitness ==
    /\ ret.op = "Append" /\ ret.err = "nil"
    /\ config.InitialOffset # 0
    /\ Len(appended) >= 3
    /\ \E i \in 1..(Len(appended) - 1) : appended[i].off + 1 \in Bases

\* C2: read-your-append: on the open log, every offset a successful
\* Log.Append returned reads back, with that append's value and that offset,
\* whatever was appended or rolled over since.
ReadYourAppend ==
    log.state = "open" =>
        \A i \in 1..Len(appended) :
            ReadResult(LogRead(log, fs, appended[i].off)) =
                [err |-> "nil",
                 rec |-> [Value |-> appended[i].value, Offset |-> appended[i].off]]

\* C2 witness: a Read of the first appended record succeeded after two more
\* appends and a roll-over.
ReadYourAppendWitness ==
    /\ ret.op = "Read" /\ ret.err = "nil"
    /\ Len(appended) >= 3 /\ Len(Segs) >= 2
    /\ ret.off = appended[1].off
    /\ ret.rec.Value # << >>

\* C3: Log.Read(o) fails with ErrOffsetOutOfRange exactly when o is below the
\* first segment's baseOffset or at or above the active segment's nextOffset.
OutOfRangeExactly ==
    log.state = "open" =>
        \A o \in Offsets :
            (LogRead(log, fs, o).err = "ErrOffsetOutOfRange")
                <=> (o < Segs[1].baseOffset \/ o >= Active.nextOffset)

\* C3 witness: Read(nextOffset) failed with ErrOffsetOutOfRange on a log of
\* two segments that holds records.
OutOfRangeWitness ==
    /\ ret.op = "Read" /\ ret.err = "ErrOffsetOutOfRange"
    /\ log.state = "open" /\ Len(Segs) >= 2 /\ Len(appended) >= 2
    /\ ret.off = Active.nextOffset

\* C4: Close followed by NewLog on the same directory and config: setup opens
\* each base offset once, in ascending order; every offset reads as it did
\* before Close (same record, or out of range); and the active segment's
\* nextOffset, the offset of the next append, is what it was.
ReopenRoundTrip ==
    (ret.op = "NewLog" /\ snap.kind = "close") =>
        /\ ret.err = "nil"
        /\ \A i \in 1..(Len(Segs) - 1) : Segs[i].baseOffset < Segs[i + 1].baseOffset
        /\ Bases = DOMAIN fs.store
        /\ View(log, fs) = snap.view
        /\ Active.nextOffset = snap.next

\* C4 witness: a log of at least two segments and three records was reopened.
ReopenWitness ==
    /\ ret.op = "NewLog" /\ snap.kind = "close" /\ ret.err = "nil"
    /\ Len(Segs) >= 2 /\ Len(appended) >= 3

\* the frames a consumer parses from the reader's stream: 8 bytes of length,
\* then the payload; <<-1>> marks a stream that ends inside a frame
RECURSIVE ParseFrames(_)
ParseFrames(b) ==
    IF b = << >> THEN << >>
    ELSE IF Len(b) < limit \/ limit + Uint(Slice(b, 0, limit)) > Len(b)
    THEN << <<-1>> >>
    ELSE << Slice(b, limit, Uint(Slice(b, 0, limit))) >>
         \o ParseFrames(SubSeq(b, limit + Uint(Slice(b, 0, limit)) + 1, Len(b)))

\* C5: a fully drained Log.Reader(), taken after the appends, yields frames
\* that are exactly the payloads of the appended records, in offset order,
\* none extra and none missing.
ReaderYieldsAppended ==
    (rd.live /\ rd.done /\ rdAt = nApp) =>
        ParseFrames(rd.out) = [i \in 1..Len(appended) |-> Payload(i)]

\* C7: Reset yields an empty log: Reset returns no error, and leaves exactly
\* one segment, the active one, with baseOffset = nextOffset = InitialOffset,
\* so that every Read is out of range.
ResetYieldsEmptyLog ==
    ret.op = "Reset" =>
        /\ ret.err = "nil"
        /\ Len(Segs) = 1 /\ log.active = 1
        /\ Segs[1].baseOffset = log.Config.InitialOffset
        /\ Segs[1].nextOffset = log.Config.InitialOffset
        /\ \A o \in Offsets : OutOfRange(log, o)

\* C8: a saturated index causes a roll-over, never a failed append: without
\* I/O errors every Log.Append succeeds.
AppendNeverFails == ret.op = "Append" => ret.err = "nil"

\* C9: crash recovery of nextOffset: when the process stops without Close
\* with the store data flushed, NewLog derives the nextOffset the log had,
\* and every offset reads as it did before the crash.
CrashRecoversNextOffset ==
    (ret.op = "NewLog" /\ snap.kind = "crash" /\ snap.flushed) =>
        /\ ret.err = "nil"
        /\ Active.nextOffset = snap.next
        /\ View(log, fs) = snap.view

\* C6: under any interleaving of Log.Append and Log.Read from several
\* threads, the offsets of the successful appends, taken in the order the
\* appends held the write lock, strictly increase (so no two are equal), and a
\* Read(o) that took the read lock after the append that returned o had
\* returned succeeds with that append's value.
ConcurrentAppendRead ==
    /\ \A i, j \in 1..Len(appended) : i < j => appended[i].off < appended[j].off
    /\ \A t \in Threads :
          (th[t].pc = "unlockR" /\ th[t].expect.known) =>
              /\ th[t].res.err = "nil"
              /\ th[t].res.rec = [Value |-> th[t].expect.value, Offset |-> th[t].arg]

\* C6 witness: after appends by both threads' turns, two threads hold the read
\* lock at once and one has read a record appended before it took the lock.
ConcurrentWitness ==
    /\ Len(appended) >= 2
    /\ \A t \in Threads : th[t].pc \in {"read", "unlockR"}
    /\ \E t \in Threads : th[t].pc = "unlockR" /\ th[t].expect.known /\ th[t].res.rec.Value # << >>

\* C10: index close/reopen round trip: after n successful Writes and Close
\* the file is n*12 bytes long, and an index constructed over it with the same
\* config has size n*12, returns the i-th written pair for Read(i), 0 <= i < n,
\* and for Read(-1) the last written pair, or an error when n = 0.
IndexRoundTrip ==
    /\ ix.state = "closed" => Len(ix.file) = Len(ixWritten) * entryWidth
    /\ ixRet.op = "newIndex" =>
          /\ ix.index.size = Len(ixWritten) * entryWidth
          /\ \A i \in 0..(Len(ixWritten) - 1) :
                IndexRead(ix.index, ix.file, i) =
                    [err |-> "nil", out |-> ixWritten[i + 1][1], pos |-> ixWritten[i + 1][2]]
          /\ IndexRead(ix.index, ix.file, -1) =
                IF ixWritten = << >>
                THEN [err |-> "EOF", out |-> 0, pos |-> 0]
                ELSE [err |-> "nil", out |-> ixWritten[Len(ixWritten)][1],
                      pos |-> ixWritten[Len(ixWritten)][2]]

\* C10 witness: an index with two different entries was closed and constructed
\* again.
IndexRoundTripWitness ==
    /\ ixRet.op = "newIndex"
    /\ Len(ixWritten) >= 2
    /\ ixWritten[1] # ixWritten[Len(ixWritten)]

\* what a segment holds: its nextOffset, the bytes of its store (written or
\* still buffered) and the entries of its index
Content(seg, f) ==
    [nextOffset |-> seg.nextOffset,
     storeSize  |-> seg.store.size,
     storeBytes |-> f.store[seg.baseOffset] \o seg.store.buf,
     indexSize  |-> seg.index.size,
     entries    |-> SubSeq(f.index[seg.baseOffset], 1, seg.index.size)]

\* the segment list is strictly ascending and contiguous, and the active
\* segment is its last element
ChainOK ==
    Len(Segs) > 0 =>
        /\ \A i \in 1..(Len(Segs) - 1) :
              /\ Segs[i].baseOffset < Segs[i + 1].baseOffset
              /\ Segs[i + 1].baseOffset = Segs[i].nextOffset
        /\ log.active = Len(Segs)

\* a step leaves every segment but the active one as it was
OnlyActiveChanges ==
    \A i \in 1..Len(Segs) :
        (i # log.active /\ i <= Len(log'.segments) /\ fs.exists /\ fs'.exists) =>
            Content(log'.segments[i], fs') = Content(Segs[i], fs)

\* C11: segment-chain invariant: through NewLog, Append, Close followed by
\* NewLog, and Reset, the segment list is strictly ascending by baseOffset,
\* consecutive segments satisfy S[i+1].baseOffset = S[i].nextOffset, the
\* active segment is the last of the list, and no step changes the
\* nextOffset, store or index of any other segment.
SegmentChain == []ChainOK /\ [][OnlyActiveChanges]_vars

\* C11 witness: an append to the second segment of a log that was closed and
\* opened again, whose first segment holds two records.
SegmentChainWitness ==
    /\ ret.op = "Append" /\ ret.err = "nil" /\ nOpen >= 1
    /\ Len(Segs) >= 2 /\ log.active = 2
    /\ Segs[1].nextOffset - Segs[1].baseOffset >= 2
    /\ Active.nextOffset > Active.baseOffset

\* C12: soft store cap: after a Log.Append call, a segment whose store has
\* reached MaxStoreBytes is never the active one: the append that brought it
\* there succeeded and was followed, before it returned, by a new active
\* segment based at the next offset; so the active store is below the cap.
SoftStoreCap ==
    ret.op = "Append" =>
        /\ Active.store.size < log.Config.MaxStoreBytes
        /\ \A i \in 1..Len(Segs) :
              Segs[i].store.size >= log.Config.MaxStoreBytes =>
                  /\ i < Len(Segs)
                  /\ Segs[i + 1].baseOffset = Segs[i].nextOffset
                  /\ log.active = Len(Segs)

\* C13: Remove and Reset are exclusive for their whole duration: while a
\* thread is between the first step of a Remove or Reset (closing the
\* segments) and its last (deleting the directory, finishing setup), no
\* other thread is inside Log.Append or Log.Read.
RemoveResetExclusive ==
    \A t, u \in Threads :
        (t # u /\ th[t].pc \in InRemove) => th[u].pc \notin InCall

\* the k-th entry (from 0) of a segment's index file
EntryOff(seg, k) == Uint(Slice(fs.index[seg.baseOffset], k * entryWidth, offsetWidth))
EntryPos(seg, k) ==
    Uint(Slice(fs.index[seg.baseOffset], k * entryWidth + offsetWidth, posWidth))

\* the successful appends that went to the i-th segment
AppendedTo(i) ==
    {j \in 1..Len(appended) :
        /\ appended[j].off >= Segs[i].baseOffset
        /\ (i < Len(Segs) => appended[j].off < Segs[i + 1].baseOffset)}

\* C14: per-segment index invariant: for every segment, nextOffset >=
\* baseOffset; nextOffset - baseOffset = index.size / 12 = the number of
\* records appended to the segment; the i-th index entry has relative offset
\* i; and the positions of successive entries strictly increase.
IndexInvariant ==
    fs.exists =>
        \A i \in 1..Len(Segs) :
            /\ Segs[i].nextOffset >= Segs[i].baseOffset
            /\ Segs[i].nextOffset - Segs[i].baseOffset = Segs[i].index.size \div entryWidth
            /\ Segs[i].nextOffset - Segs[i].baseOffset = Cardinality(AppendedTo(i))
            /\ \A k \in 0..(Segs[i].nextOffset - Segs[i].baseOffset - 1) :
                  /\ EntryOff(Segs[i], k) = k
                  /\ k > 0 => EntryPos(Segs[i], k - 1) < EntryPos(Segs[i], k)

\* C15: index construction is grow-only: newIndex over an existing file of
\* length L with MaxIndexBytes M leaves a file of length max(L, M) that
\* still starts with the old bytes (no entry is cut off), and the recorded
\* size does not exceed the length of the mapping.
NewIndexGrowOnly ==
    [][(ix.state = "closed" /\ ix'.state = "open") =>
          /\ Len(ix'.file) = (IF Len(ix.file) > ix'.max THEN Len(ix.file) ELSE ix'.max)
          /\ SubSeq(ix'.file, 1, Len(ix.file)) = ix.file
          /\ ix'.index.size <= ix'.index.maplen]_vars

\* C16: index.Write(off, pos) fails with the no-space error exactly when
\* size + 12 exceeds the mapped length, and then changes nothing; otherwise
\* it stores (off, pos) as the entry at byte position size, advances size by
\* exactly 12 and leaves all earlier bytes as they were.
IndexWriteExact ==
    [][ixRet'.op = "Write" =>
          IF ix.index.size + entryWidth > ix.index.maplen
          THEN ixRet'.err = "EOF" /\ ix' = ix /\ ixWritten' = ixWritten
          ELSE /\ ixRet'.err = "nil"
               /\ ix'.index.size = ix.index.size + entryWidth
               /\ Uint(Slice(ix'.file, ix.index.size, offsetWidth)) = ixRet'.out
               /\ Uint(Slice(ix'.file, ix.index.size + offsetWidth, posWidth)) = ixRet'.pos
               /\ SubSeq(ix'.file, 1, ix.index.size) = SubSeq(ix.file, 1, ix.index.size)
               /\ Len(ix'.file) = Len(ix.file)]_vars

\* C16 witness: a Write was refused by an index of 30 bytes that two Writes
\* had filled to 24, the second of them with a non-zero offset and position.
IndexWriteWitness ==
    /\ ixRet.op = "Write" /\ ixRet.err = "EOF"
    /\ ix.index.maplen = 30
    /\ ix.index.size = 2 * entryWidth
    /\ Len(ixWritten) = 2 /\ ixWritten[2] = <<1, 10>>

\* C17: index.Read(k) on an index with n entries fails for every k when
\* n = 0; for k = -1 and n > 0 it returns the last written entry; for every
\* other int64 k (negative, or 2^32 and more, included) it returns the k-th
\* written entry when 0 <= k < n and fails otherwise.
IndexReadExact ==
    ixRet.op = "Read" =>
        IF ixWritten = << >> THEN ixRet.err # "nil"
        ELSE IF ixRet.hi = 0 /\ ixRet.k = -1
        THEN /\ ixRet.err = "nil"
             /\ <<ixRet.out, ixRet.pos>> = ixWritten[Len(ixWritten)]
        ELSE IF ixRet.hi = 0 /\ ixRet.k >= 0 /\ ixRet.k < Len(ixWritten)
        THEN /\ ixRet.err = "nil"
             /\ <<ixRet.out, ixRet.pos>> = ixWritten[ixRet.k + 1]
        ELSE ixRet.err # "nil"

\* the sum of the frame widths of the first i appends to the store
RECURSIVE WidthSum(_)
WidthSum(i) == IF i = 0 THEN 0 ELSE WidthSum(i - 1) + (limit + Len(stWritten[i].p))

\* C18: store append/read round trip: store.Append(p) returns n = 8 + len(p)
\* and pos = the size before the call, so that pos + n is the sum of the
\* frame widths appended so far; and store.Read(pos), for the pos of any
\* earlier Append, returns that append's payload, whether the write is still
\* buffered or flushed, and also through a second store on the same file.
StoreRoundTrip ==
    /\ \A i \in 1..Len(stWritten) :
          /\ stWritten[i].n = limit + Len(stWritten[i].p)
          /\ stWritten[i].pos = WidthSum(i - 1)
          /\ stWritten[i].pos + stWritten[i].n = WidthSum(i)
    /\ st.state = "open" =>
          \A i \in 1..Len(stWritten) :
              StoreRead(StoreFlushFile(st.store, st.file), stWritten[i].pos) =
                  [err |-> "nil", b |-> stWritten[i].p]

\* C18 witness: the second store read back the second of three appended
\* records, a non-empty one behind an empty one.
StoreRoundTripWitness ==
    /\ st.gen = 1
    /\ stRet.op = "Read" /\ stRet.err = "nil"
    /\ Len(stWritten) = 3
    /\ stWritten[1].p = << >>
    /\ stRet.pos = stWritten[2].pos /\ stRet.b = <<7>>

\* C19: store flush on close: after store.Close, and after any store.Read or
\* ReadAt, the file's length equals the store's logical size, the sum of the
\* frame widths of all records appended; so after a Close that found
\* unflushed appends the file is strictly longer than it was before.
StoreFlushOnClose ==
    stRet.op \in {"Close", "Read", "ReadAt"} =>
        /\ Len(st.file) = st.store.size
        /\ st.store.size = WidthSum(Len(stWritten))
        /\ (stRet.op = "Close" /\ stRet.n < st.store.size) => Len(st.file) > stRet.n

\* C19 witness: Close flushed a record that was not in the file before, after
\* an earlier record that a Read had flushed.
StoreFlushWitness ==
    /\ stRet.op = "Close"
    /\ Len(stWritten) >= 2
    /\ stRet.n > 0 /\ stRet.n < Len(st.file)

\* C20: reader snapshot: a drained Log.Reader() yields only the frames of
\* records appended before the Reader() call: no more frames than there were
\* Log.Append calls by then, however many appends followed.
ReaderSnapshot ==
    (rd.live /\ rd.done) => Len(ParseFrames(rd.out)) <= rdAt

\* a Log.Append call that returned an error
AppendFailed == ret'.op = "Append" /\ ret'.err # "nil" /\ nApp' = nApp + 1

=============================================================================
